---------------------------- MODULE Spec2Model ----------------------------
(***************************************************************************)
(* Model of scripts/data_pipeline.py: the shorthand query translator       *)
(* (parse_custom_query), the normalizer (clean_data), the merger           *)
(* (flatten_data), the view definition (create_materialized_view), the     *)
(* pipeline run (run_pipeline) against the shared database and the         *)
(* interactive shell (interactive_postgres).                               *)
(*                                                                         *)
(* Text is a sequence of pieces.  What the user types is a sequence of     *)
(* one-character strings; the fixed fragments of the statement templates   *)
(* are longer strings, except that every quote character of a template is *)
(* a piece of its own, so that a quote typed by the user and a quote of    *)
(* the template are the same piece, as they are the same character in the  *)
(* text the code builds by interpolation.                                  *)
(***************************************************************************)
EXTENDS Integers, Sequences, FiniteSets, TLC

VARIABLES
    user_query,   \* translator: the shorthand input
    sql_query,    \* translator: what parse_custom_query returned
    translated,   \* translator: whether parse_custom_query has run
    tables,       \* normalizer: the raw tables, then what each pass of clean_data returned
    cleaned,      \* merger: the cleaned tables handed to flatten_data and loaded for the view
    flat_df,      \* merger: what flatten_data returned
    flattened_data, \* merger: the rows of the materialized view's query
    merged,       \* merger: which of the two has run
    db,           \* runtime: the database (base tables, flattened_data, its index)
    run,          \* runtime: where each pipeline run is in run_pipeline
    shell         \* runtime: the interactive shell

translateVars == <<user_query, sql_query, translated>>
cleanVars     == <<tables>>
mergeVars     == <<cleaned, flat_df, flattened_data, merged>>
runtimeVars   == <<db, run, shell>>

vars == <<translateVars, cleanVars, mergeVars, runtimeVars>>

\* The parts of the state a specification does not use stay as they are here.
TranslateIdle == user_query = <<>> /\ sql_query = <<>> /\ translated = FALSE
CleanIdle     == tables = <<>>
MergeIdle     == cleaned = <<>> /\ flat_df = <<>> /\ flattened_data = {} /\ merged = {}
RuntimeIdle   == db = <<>> /\ run = <<>> /\ shell = <<>>

-----------------------------------------------------------------------------
(* Python's str operations, on sequences of one-character strings.         *)

MinOf(S) == CHOOSE x \in S : \A y \in S : x <= y
MaxOf(S) == CHOOSE x \in S : \A y \in S : x >= y

\* str.lower() on one character, for the letters the model's inputs use.
LowerChar(c) ==
    CASE c = "A" -> "a" [] c = "B" -> "b" [] c = "C" -> "c" [] c = "E" -> "e"
      [] c = "F" -> "f" [] c = "G" -> "g" [] c = "I" -> "i" [] c = "L" -> "l"
      [] c = "M" -> "m" [] c = "N" -> "n" [] c = "R" -> "r" [] c = "S" -> "s"
      [] c = "T" -> "t" [] c = "X" -> "x"
      [] OTHER -> c

\* str.lower()
Lower(s) == [i \in 1..Len(s) |-> LowerChar(s[i])]

\* str.startswith(p)
startswith(s, p) == Len(s) >= Len(p) /\ SubSeq(s, 1, Len(p)) = p

\* s[n:]
From(s, n) == SubSeq(s, n + 1, Len(s))

\* str.strip(): leading and trailing whitespace removed.
strip(s) ==
    LET keep == {i \in 1..Len(s) : s[i] # " "}
    IN  IF keep = {} THEN <<>> ELSE SubSeq(s, MinOf(keep), MaxOf(keep))

\* str.split(): the maximal runs of non-whitespace characters, in order.
RECURSIVE split(_)
split(s) ==
    LET t == strip(s)
    IN  IF t = <<>> THEN <<>>
        ELSE LET sp == {i \in 1..Len(t) : t[i] = " "}
                 e  == IF sp = {} THEN Len(t) + 1 ELSE MinOf(sp)
             IN  <<SubSeq(t, 1, e - 1)>> \o split(From(t, e - 1))

\* ":" in s
HasColon(s) == \E i \in 1..Len(s) : s[i] = ":"

\* s.split(":", 1): the text before and the text after the first colon.
split_colon(s) ==
    LET c == MinOf({i \in 1..Len(s) : s[i] = ":"})
    IN  <<SubSeq(s, 1, c - 1), From(s, c)>>

Digits == {"0", "1", "2", "3", "4", "5", "6", "7", "8", "9"}

\* \d+(?:\.\d+)? anchored at both ends
IsNumber(s) ==
    LET dots == {i \in 1..Len(s) : s[i] = "."}
    IN  /\ Len(s) >= 1
        /\ \A i \in 1..Len(s) : s[i] \in Digits \/ s[i] = "."
        /\ \/ dots = {}
           \/ \E d \in dots : dots = {d} /\ d > 1 /\ d < Len(s)

\* The comparison operators, in the order the code tries them.
CompareOps == << <<">", "=">>, <<">">>, <<"<", "=">>, <<"<">> >>

\* re.match(r'^(>=|>|<=|<)(\d+(?:\.\d+)?)$', s): the groups, or <<>> for no
\* match.  The alternation backtracks, so every operator is tried in order.
re_match_op_value(s) ==
    LET ok == {k \in 1..Len(CompareOps) :
                 startswith(s, CompareOps[k]) /\ IsNumber(From(s, Len(CompareOps[k])))}
    IN  IF ok = {} THEN <<>>
        ELSE <<CompareOps[MinOf(ok)], From(s, Len(CompareOps[MinOf(ok)]))>>

-----------------------------------------------------------------------------
(* parse_custom_query                                                      *)

\* A function that falls off its end returns None.
None == <<"None">>

SelectWhere == "SELECT * FROM flattened_data WHERE "

ErrorStmt(msg) == <<"SELECT ", "'", msg, "'", " AS error;">>

TitleStmt(term) ==
    <<SelectWhere, "lower(title) ILIKE ", "'", "%">> \o term \o <<"%", "'", ";">>

EmailsStmt(term) ==
    <<SelectWhere, "\"emails\" ILIKE ", "'", "%">> \o term \o <<"%", "'", ";">>

CompareStmt(field, op, val) ==
    <<SelectWhere>> \o field \o <<" ">> \o op \o <<" ">> \o val \o <<";">>

FilterStmt(email_term, tech_term, op, pop_val) ==
    <<SelectWhere, "\"emails\" ILIKE ", "'", "%">> \o email_term \o <<"%", "'", " ">>
    \o <<"AND \"tech_names\" ILIKE ", "'", "%">> \o tech_term \o <<"%", "'">>
    \o <<" AND pop_estimate_2022 ">> \o op \o <<" ">> \o pop_val \o <<";">>

CrmStmt(cond) == <<SelectWhere, cond, ";">>

GenericStmt(field, term) ==
    <<SelectWhere>> \o field \o <<" ILIKE ", "'", "%">> \o term \o <<"%", "'", ";">>

FullTextStmt(q) ==
    <<SelectWhere, "\"document\" @@ plainto_tsquery(", "'", "english", "'", ", ", "'">>
    \o q \o <<"'", ");">>

P_title  == <<"t", "i", "t", "l", "e", ":">>
P_emails == <<"e", "m", "a", "i", "l", "s", ":">>
P_range  == <<"r", "a", "n", "g", "e", ":">>
P_filter == <<"f", "i", "l", "t", "e", "r", ":">>
P_crm    == <<"c", "r", "m", ":">>

\* Mutant: the prefix tests read the input as typed (the .lower() is lost).
lower_query_as_typed(q) == q

\* lower_query = user_query.lower()
lower_query(q) == Lower(q)

range_branch(q) ==
    LET parts == split(strip(From(q, 6)))
    IN  IF Len(parts) = 2
        THEN LET m == re_match_op_value(parts[2])
             IN  IF m # <<>> THEN CompareStmt(parts[1], m[1], m[2]) ELSE None
        ELSE IF Len(parts) = 3
        THEN CompareStmt(parts[1], parts[2], parts[3])
        ELSE ErrorStmt("Invalid range query")

filter_branch(q) ==
    LET parts == split(strip(From(q, Len(P_filter))))
    IN  IF Len(parts) # 3 THEN ErrorStmt("Invalid filter query format")
        ELSE LET pop_expr == parts[3]
             IN  IF startswith(pop_expr, <<">", "=">>)
                 THEN FilterStmt(parts[1], parts[2], <<">", "=">>, From(pop_expr, 2))
                 ELSE IF startswith(pop_expr, <<">">>)
                 THEN FilterStmt(parts[1], parts[2], <<">">>, From(pop_expr, 1))
                 ELSE IF startswith(pop_expr, <<"<", "=">>)
                 THEN FilterStmt(parts[1], parts[2], <<"<", "=">>, From(pop_expr, 2))
                 ELSE IF startswith(pop_expr, <<"<">>)
                 THEN FilterStmt(parts[1], parts[2], <<"<">>, From(pop_expr, 1))
                 ELSE ErrorStmt("Invalid population expression")

crm_branch(q) ==
    LET param == Lower(strip(split_colon(q)[2]))
    IN  IF param = <<"a">> THEN CrmStmt("sfdc_id IS NOT NULL")
        ELSE IF param = <<"b">> THEN CrmStmt("hubspot_id IS NOT NULL")
        ELSE IF param = <<"a", "l", "l">>
        THEN CrmStmt("sfdc_id IS NOT NULL OR hubspot_id IS NOT NULL")
        ELSE ErrorStmt("Invalid crm parameter")

parse_custom_query(q) ==
    IF startswith(lower_query(q), P_title)
    THEN TitleStmt(Lower(strip(split_colon(q)[2])))
    ELSE IF startswith(lower_query(q), P_emails)
    THEN EmailsStmt(Lower(strip(split_colon(q)[2])))
    ELSE IF startswith(lower_query(q), P_range) THEN range_branch(q)
    ELSE IF startswith(lower_query(q), P_filter) THEN filter_branch(q)
    ELSE IF startswith(lower_query(q), P_crm) THEN crm_branch(q)
    ELSE IF HasColon(q)
    THEN GenericStmt(strip(split_colon(q)[1]), Lower(strip(split_colon(q)[2])))
    ELSE FullTextStmt(q)

-----------------------------------------------------------------------------
(* The translator applied to bounded inputs.                               *)

\* The most space-separated words after the head of an input.
MaxWords == 3

\* How an input starts: a rule's prefix in some letter case, a field name
\* of the generic rule, or nothing.
Heads ==
    { P_title, <<"T", "I", "T", "L", "E", ":">>,
      P_emails, <<"E", "m", "a", "i", "l", "s", ":">>,
      P_range, <<"R", "A", "N", "G", "E", ":">>,
      P_filter, <<"F", "i", "l", "t", "e", "r", ":">>,
      P_crm, <<"C", "R", "M", ":">>,
      <<"l", "a", "t", ":">>,
      <<>> }

\* The words an input is made of; the empty word doubles a space.
Words ==
    { <<>>, <<"a">>, <<"B">>, <<"a", "l", "l">>, <<"x", "'">>, <<"5">>,
      <<">">>, <<">", "=", "5">>, <<"<", "5", ".", "5">>, <<">", ">", "5">>,
      <<"c", "r", "m", ":", "a">> }

RECURSIVE Join(_)
Join(ws) ==
    IF ws = <<>> THEN <<>>
    ELSE IF Len(ws) = 1 THEN ws[1]
    ELSE ws[1] \o <<" ">> \o Join(Tail(ws))

WordLists == UNION {[1..n -> Words] : n \in 0..MaxWords}

Inputs == {h \o Join(ws) : h \in Heads, ws \in WordLists}

InitTranslate ==
    /\ user_query \in Inputs
    /\ sql_query = <<>>
    /\ translated = FALSE
    /\ CleanIdle /\ MergeIdle /\ RuntimeIdle

Translate ==
    /\ ~translated
    /\ sql_query' = parse_custom_query(user_query)
    /\ translated' = TRUE
    /\ UNCHANGED <<user_query, cleanVars, mergeVars, runtimeVars>>

NextTranslate == Translate

SpecTranslate == InitTranslate /\ [][NextTranslate]_vars

-----------------------------------------------------------------------------
(* What a returned statement is, read off its text alone.                  *)

\* The fragments only a template contributes (the user types single
\* characters).
Keywords ==
    { "lower(title) ILIKE ", "\"emails\" ILIKE ", "AND \"tech_names\" ILIKE ",
      " AND pop_estimate_2022 ", " ILIKE ", "\"document\" @@ plainto_tsquery(",
      "english", ", ", ");",
      "sfdc_id IS NOT NULL", "hubspot_id IS NOT NULL",
      "sfdc_id IS NOT NULL OR hubspot_id IS NOT NULL" }

KeywordsOf(r) == {r[i] : i \in 2..Len(r)} \cap Keywords

IsErrorResult(r) ==
    /\ Len(r) = 5
    /\ r[1] = "SELECT " /\ r[2] = "'" /\ r[4] = "'" /\ r[5] = " AS error;"

IsSelect(r) == Len(r) >= 2 /\ r[1] = SelectWhere

\* The rule (1..7, in the grammar's order) whose template the result is.
HandledBy(r) ==
    CASE IsSelect(r) /\ r[2] = "lower(title) ILIKE " -> 1
      [] IsSelect(r) /\ KeywordsOf(r) = {"\"emails\" ILIKE "} -> 2
      [] r = None \/ r = ErrorStmt("Invalid range query")
           \/ (IsSelect(r) /\ KeywordsOf(r) = {}) -> 3
      [] r = ErrorStmt("Invalid filter query format")
           \/ r = ErrorStmt("Invalid population expression")
           \/ (IsSelect(r) /\ "AND \"tech_names\" ILIKE " \in KeywordsOf(r)) -> 4
      [] r = ErrorStmt("Invalid crm parameter")
           \/ (IsSelect(r) /\ Len(r) = 3
               /\ r[2] \in {"sfdc_id IS NOT NULL", "hubspot_id IS NOT NULL",
                            "sfdc_id IS NOT NULL OR hubspot_id IS NOT NULL"}) -> 5
      [] IsSelect(r) /\ KeywordsOf(r) = {" ILIKE "} -> 6
      [] IsSelect(r) /\ r[2] = "\"document\" @@ plainto_tsquery(" -> 7
      [] OTHER -> 0

\* The grammar: rule i applies to an input when the input starts with the
\* rule's prefix in any letter case (1..5), holds a colon (6), or always (7).
Applies(i, q) ==
    CASE i = 1 -> startswith(Lower(q), P_title)
      [] i = 2 -> startswith(Lower(q), P_emails)
      [] i = 3 -> startswith(Lower(q), P_range)
      [] i = 4 -> startswith(Lower(q), P_filter)
      [] i = 5 -> startswith(Lower(q), P_crm)
      [] i = 6 -> HasColon(q)
      [] OTHER -> TRUE

\* First match wins.
FirstMatch(q) == MinOf({i \in 1..7 : Applies(i, q)})

\* The statement's lexical structure as the backend reads it: every string
\* literal ('...', with '' an escaped quote inside it) is one token whatever
\* it holds; everything outside a literal is structure.
RECURSIVE Skel(_, _)
Skel(s, inLiteral) ==
    IF s = <<>> THEN (IF inLiteral THEN <<"<unterminated>">> ELSE <<>>)
    ELSE IF ~inLiteral
    THEN IF s[1] = "'" THEN <<"<literal>">> \o Skel(Tail(s), TRUE)
         ELSE <<s[1]>> \o Skel(Tail(s), FALSE)
    ELSE IF s[1] = "'"
    THEN IF Len(s) >= 2 /\ s[2] = "'" THEN Skel(Tail(Tail(s)), TRUE)
         ELSE Skel(Tail(s), FALSE)
    ELSE Skel(Tail(s), TRUE)

Skeleton(r) == Skel(r, FALSE)

\* The same input with every term replaced by the plain word a.
ReplaceTerms(q) ==
    LET rule == FirstMatch(q)
    IN  CASE rule \in {1, 2, 6} -> split_colon(q)[1] \o <<":", "a">>
          [] rule = 7 -> <<"a">>
          [] rule = 4 ->
               LET parts == split(From(q, Len(P_filter)))
               IN  IF Len(parts) = 3
                   THEN SubSeq(q, 1, Len(P_filter)) \o <<"a", " ", "a", " ">> \o parts[3]
                   ELSE q
          [] OTHER -> q

-----------------------------------------------------------------------------
(* Claims about the translator, under SpecTranslate.                       *)

\* C4: a term typed by the user only ever becomes a compared value: the
\* statement built for an input has the structure of the statement built for
\* the same input with its terms replaced by a plain word.
TermsAreLiteralData ==
    translated =>
        Skeleton(sql_query) = Skeleton(parse_custom_query(ReplaceTerms(user_query)))

\* C5: for a range: input the result is the numeric comparison when what
\* follows is <field> <op><value> or <field> <op> <value> with a known
\* operator and an unsigned decimal number, and a structured error result
\* otherwise (never a comparison, never no result).
RangeIsComparisonOrError ==
    (translated /\ FirstMatch(user_query) = 3) =>
        LET parts == split(From(user_query, Len(P_range)))
            Ops   == {CompareOps[k] : k \in 1..Len(CompareOps)}
        IN  IF Len(parts) = 2 /\ \E op \in Ops :
                   startswith(parts[2], op) /\ IsNumber(From(parts[2], Len(op)))
            THEN \E op \in Ops :
                   /\ startswith(parts[2], op) /\ IsNumber(From(parts[2], Len(op)))
                   /\ sql_query = CompareStmt(parts[1], op, From(parts[2], Len(op)))
            ELSE IF Len(parts) = 3 /\ parts[2] \in Ops /\ IsNumber(parts[3])
            THEN sql_query = CompareStmt(parts[1], parts[2], parts[3])
            ELSE IsErrorResult(sql_query)

\* C6: for a filter: input the result is the complete compound predicate
\* when there are exactly three words and the third is an operator followed
\* by a number, and a structured error otherwise.
FilterIsCompleteOrError ==
    (translated /\ FirstMatch(user_query) = 4) =>
        LET parts == split(From(user_query, Len(P_filter)))
            Ops   == {CompareOps[k] : k \in 1..Len(CompareOps)}
        IN  IF Len(parts) = 3 /\ \E op \in Ops :
                   startswith(parts[3], op) /\ IsNumber(From(parts[3], Len(op)))
            THEN \E op \in Ops :
                   /\ startswith(parts[3], op) /\ IsNumber(From(parts[3], Len(op)))
                   /\ sql_query = FilterStmt(parts[1], parts[2], op, From(parts[3], Len(op)))
            ELSE IsErrorResult(sql_query)

\* C7: every input is handled by the first rule of the grammar that applies
\* to it, prefixes matched in any letter case; crm: gives the SFDC, the
\* HubSpot or the either-one predicate for the parameter a, b or all (read,
\* like the prefix, in any letter case and without the spaces around it) and
\* an error for any other parameter; an input without a colon is matched as
\* a whole against document.
DispatchByPriority ==
    translated =>
        /\ HandledBy(sql_query) = FirstMatch(user_query)
        /\ FirstMatch(user_query) = 5 =>
             LET param == Lower(strip(From(user_query, Len(P_crm))))
             IN  sql_query =
                   (CASE param = <<"a">> -> CrmStmt("sfdc_id IS NOT NULL")
                      [] param = <<"b">> -> CrmStmt("hubspot_id IS NOT NULL")
                      [] param = <<"a", "l", "l">> ->
                           CrmStmt("sfdc_id IS NOT NULL OR hubspot_id IS NOT NULL")
                      [] OTHER -> ErrorStmt("Invalid crm parameter"))
        /\ FirstMatch(user_query) = 7 => sql_query = FullTextStmt(user_query)

\* C7 witness: an input with the title: prefix in upper case that also holds
\* the crm: prefix further on was handled by the title rule.
DispatchWitness ==
    /\ translated
    /\ startswith(user_query, <<"T", "I", "T", "L", "E", ":">>)
    /\ \E i \in 1..Len(user_query) : startswith(From(user_query, i), P_crm)
    /\ HandledBy(sql_query) = 1

-----------------------------------------------------------------------------
(* clean_data.  A DataFrame is its columns' dtypes and its rows; a cell of *)
(* an object column is text, a cell of an int64 column a number, a cell of *)
(* a datetime64 column <<t>> for the timestamp t and <<>> for NaT.         *)

EmptyFrame == [dtypes |-> <<>>, rows |-> <<>>]

\* DataFrame.empty
IsEmpty(f) == Len(f.rows) = 0 \/ DOMAIN f.dtypes = {}

DigitSeq == <<"0", "1", "2", "3", "4", "5", "6", "7", "8", "9">>

DigitValue(c) == CHOOSE d \in 0..9 : DigitSeq[d + 1] = c

\* The number a text of digits denotes.
RECURSIVE DecimalValue(_)
DecimalValue(s) ==
    IF s = <<>> THEN 0
    ELSE 10 * DecimalValue(SubSeq(s, 1, Len(s) - 1)) + DigitValue(s[Len(s)])

\* The digits of a number, without leading zeros.
RECURSIVE DecimalText(_)
DecimalText(n) ==
    IF n < 10 THEN <<DigitSeq[n + 1]>>
    ELSE DecimalText(n \div 10) \o <<DigitSeq[(n % 10) + 1]>>

\* Mutant: the timestamp is written in another field order than the one it
\* is read in (day first against month first).
RECURSIVE ReverseText(_)
ReverseText(s) == IF s = <<>> THEN <<>> ELSE ReverseText(Tail(s)) \o <<s[1]>>

astype_str_swapped(cell, dtype) ==
    IF dtype = "datetime64"
    THEN (IF cell = <<>> THEN <<"N", "a", "T">> ELSE ReverseText(DecimalText(cell[1])))
    ELSE cell

\* Series.astype(str): the text of a cell.
astype_str(cell, dtype) ==
    IF dtype = "datetime64"
    THEN (IF cell = <<>> THEN <<"N", "a", "T">> ELSE DecimalText(cell[1]))
    ELSE cell

\* .str.replace(r'\(.*?\)', '', regex=True): every parenthetical removed,
\* each from an opening parenthesis to the first closing one after it.
RECURSIVE remove_parentheticals(_)
remove_parentheticals(s) ==
    LET opens == {i \in 1..Len(s) : s[i] = "(" /\ \E j \in (i + 1)..Len(s) : s[j] = ")"}
    IN  IF opens = {} THEN s
        ELSE LET i == MinOf(opens)
                 j == MinOf({k \in (i + 1)..Len(s) : s[k] = ")"})
             IN  SubSeq(s, 1, i - 1) \o remove_parentheticals(From(s, j))

\* pd.to_datetime(text, errors='coerce'): a timestamp is written as its
\* digits; any other text is NaT.
to_datetime(s) ==
    IF Len(s) >= 1 /\ \A i \in 1..Len(s) : s[i] \in Digits
    THEN <<DecimalValue(s)>>
    ELSE <<>>

\* DataFrame.drop_duplicates(): the first of equal rows is kept.
drop_duplicates(rows) ==
    LET keep == {i \in 1..Len(rows) : \A j \in 1..(i - 1) : rows[j] # rows[i]}
        RECURSIVE Pick(_)
        Pick(i) == IF i > Len(rows) THEN <<>>
                   ELSE (IF i \in keep THEN <<rows[i]>> ELSE <<>>) \o Pick(i + 1)
    IN  Pick(1)

\* for col in df.select_dtypes(include='object').columns: df[col].str.strip()
strip_object_columns(f, except) ==
    [f EXCEPT !.rows =
        [i \in 1..Len(f.rows) |->
            [c \in DOMAIN f.dtypes |->
                IF f.dtypes[c] = "object" /\ c \notin except
                THEN strip(f.rows[i][c]) ELSE f.rows[i][c]]]]

\* contacts['created_at']: annotation removed, trimmed, parsed.
parse_created_at(f) ==
    [dtypes |-> [f.dtypes EXCEPT !["created_at"] = "datetime64"],
     rows   |-> [i \in 1..Len(f.rows) |->
                   [f.rows[i] EXCEPT !["created_at"] =
                      to_datetime(strip(remove_parentheticals(
                          astype_str(f.rows[i]["created_at"], f.dtypes["created_at"]))))]]]

\* contacts.insert(0, 'id', range(1, len(contacts)+1)) when no id column.
ensure_id(f) ==
    IF "id" \in DOMAIN f.dtypes THEN f
    ELSE [dtypes |-> [c \in DOMAIN f.dtypes \cup {"id"} |->
                        IF c = "id" THEN "int64" ELSE f.dtypes[c]],
          rows   |-> [i \in 1..Len(f.rows) |->
                        [c \in DOMAIN f.dtypes \cup {"id"} |->
                           IF c = "id" THEN i ELSE f.rows[i][c]]]]

clean_contacts(f) ==
    IF IsEmpty(f) THEN f
    ELSE LET g == ensure_id(strip_object_columns(parse_created_at(f), {"created_at"}))
         IN  [g EXCEPT !.rows = drop_duplicates(g.rows)]

\* entities, techstacks and the two customer mappings.
clean_table(f) ==
    IF IsEmpty(f) THEN f
    ELSE LET g == strip_object_columns(f, {})
         IN  [g EXCEPT !.rows = drop_duplicates(g.rows)]

clean_data(d) ==
    [contacts   |-> clean_contacts(d.contacts),
     entities   |-> clean_table(d.entities),
     techstacks |-> clean_table(d.techstacks),
     customerA  |-> clean_table(d.customerA),
     customerB  |-> clean_table(d.customerB)]

-----------------------------------------------------------------------------
(* The normalizer applied to bounded raw tables, once and again.           *)

\* The most rows of a raw contacts table.
MaxRows == 2

\* The most passes of clean_data over the same tables.
MaxPasses == 2

RawEmails == {<<"a">>, <<" ", "a">>}

RawCreatedAt ==
    { <<"1", "2">>, <<"1", "2", " ", "(", "U", ")">>, <<"x">> }

ContactRowsNoId ==
    [place_id : {1}, emails : RawEmails, created_at : RawCreatedAt]

ContactRowsWithId ==
    [id : {1, 2}, place_id : {1}, emails : RawEmails, created_at : RawCreatedAt]

SeqsUpTo(S, n) == UNION {[1..k -> S] : k \in 0..n}

RawContacts ==
    { [dtypes |-> [place_id |-> "int64", emails |-> "object", created_at |-> "object"],
       rows |-> r] : r \in SeqsUpTo(ContactRowsNoId, MaxRows) }
    \cup
    { [dtypes |-> [id |-> "int64", place_id |-> "int64", emails |-> "object",
                   created_at |-> "object"],
       rows |-> r] : r \in SeqsUpTo(ContactRowsWithId, MaxRows) }

RawEntities ==
    { EmptyFrame,
      [dtypes |-> [place_id |-> "int64", display_name |-> "object"],
       rows |-> << [place_id |-> 1, display_name |-> <<"X", " ">>],
                   [place_id |-> 1, display_name |-> <<"X">>] >>],
      [dtypes |-> [place_id |-> "int64", display_name |-> "object"],
       rows |-> << [place_id |-> 1, display_name |-> <<"X">>],
                   [place_id |-> 2, display_name |-> <<"Y">>] >>] }

RawTechstacks ==
    { EmptyFrame,
      [dtypes |-> [place_id |-> "int64", name |-> "object"],
       rows |-> << [place_id |-> 1, name |-> <<"R">>],
                   [place_id |-> 1, name |-> <<" ", "R">>],
                   [place_id |-> 1, name |-> <<"N">>] >>] }

RawCustomerA ==
    { EmptyFrame,
      [dtypes |-> [sfdc_id |-> "object", place_id |-> "int64"],
       rows |-> << [sfdc_id |-> <<"S">>, place_id |-> 1],
                   [sfdc_id |-> <<"S">>, place_id |-> 1] >>] }

RawCustomerB ==
    { EmptyFrame,
      [dtypes |-> [hubspot_id |-> "object", place_id |-> "int64"],
       rows |-> << [hubspot_id |-> <<"H", " ">>, place_id |-> 2] >>] }

RawData ==
    [contacts : RawContacts, entities : RawEntities, techstacks : RawTechstacks,
     customerA : RawCustomerA, customerB : RawCustomerB]

InitClean ==
    /\ \E d \in RawData : tables = <<d>>
    /\ TranslateIdle /\ MergeIdle /\ RuntimeIdle

\* One more pass of clean_data over what the last pass returned.
Clean ==
    /\ Len(tables) <= MaxPasses
    /\ tables' = Append(tables, clean_data(tables[Len(tables)]))
    /\ UNCHANGED <<translateVars, mergeVars, runtimeVars>>

NextClean == Clean

SpecClean == InitClean /\ [][NextClean]_vars

\* C9: cleaning what clean_data returned returns it unchanged, table by
\* table: the same columns, the same contact ids, the same rows.
CleanIsIdempotent ==
    \A k \in 2..(Len(tables) - 1) : tables[k + 1] = tables[k]

\* C9 witness: raw contacts without an id column, with two equal rows and an
\* unparseable created_at, have been cleaned twice.
CleanWitness ==
    /\ Len(tables) >= 3
    /\ "id" \notin DOMAIN tables[1].contacts.dtypes
    /\ Len(tables[1].contacts.rows) = 2
    /\ tables[1].contacts.rows[1] = tables[1].contacts.rows[2]
    /\ tables[1].contacts.rows[1].created_at = <<"x">>
    /\ tables[1].entities # EmptyFrame

-----------------------------------------------------------------------------
(* flatten_data and the query of create_materialized_view, over cleaned    *)
(* tables given as their rows.  A missing value (NaN, NULL) is Null.       *)

Null == <<"NULL">>

\* The rows of `right` whose place_id is p.
Matching(right, p) == SelectSeq(right, LAMBDA r : r.place_id = p)

\* The other columns of a right-hand table, all missing.
NullRow(cols) == [c \in cols |-> Null]

RECURSIVE Concat(_)
Concat(ss) == IF ss = <<>> THEN <<>> ELSE ss[1] \o Concat(Tail(ss))

\* pd.merge(left, right, on='place_id', how='left'): every left row, in
\* order, once per matching right row, and once with the right columns
\* missing when none matches.
merge_left(left, right, cols) ==
    Concat([i \in 1..Len(left) |->
        LET m == Matching(right, left[i].place_id)
        IN  IF m = <<>> THEN <<left[i] @@ NullRow(cols)>>
            ELSE [j \in 1..Len(m) |-> left[i] @@ m[j]]])

\* techstacks.groupby('place_id').agg({'name': list}): one row per place
\* that has tags, with the list of its names.
group_tags(techstacks) ==
    LET places == {techstacks[i].place_id : i \in 1..Len(techstacks)}
        RECURSIVE Rows(_)
        Rows(ps) ==
            IF ps = {} THEN <<>>
            ELSE LET p == MinOf(ps)
                     m == Matching(techstacks, p)
                 IN  <<[place_id |-> p, tech_names |-> [j \in 1..Len(m) |-> m[j].name]]>>
                     \o Rows(ps \ {p})
    IN  Rows(places)

flatten_data(d) ==
    IF d.contacts = <<>> \/ d.entities = <<>> THEN <<>>
    ELSE LET m1 == merge_left(d.contacts, d.entities, {"display_name"})
             m2 == IF d.techstacks # <<>>
                   THEN merge_left(m1, group_tags(d.techstacks), {"tech_names"})
                   ELSE [i \in 1..Len(m1) |-> m1[i] @@ [tech_names |-> Null]]
             m3 == IF d.customerA # <<>> THEN merge_left(m2, d.customerA, {"sfdc_id"})
                   ELSE m2
             m4 == IF d.customerB # <<>> THEN merge_left(m3, d.customerB, {"hubspot_id"})
                   ELSE m3
         IN  m4

\* string_agg(lower(t.name), ' ') over the tag rows of a place, '' when the
\* LEFT JOIN found none (coalesce).
tech_names_of(techstacks, p) ==
    LET m == Matching(techstacks, p)
    IN  Join([j \in 1..Len(m) |-> Lower(m[j].name)])

\* The values a LEFT JOIN on place_id contributes for one column: those of
\* the matching rows, or NULL once when none matches.
LeftJoined(right, p, col) ==
    LET m == Matching(right, p)
    IN  IF m = <<>> THEN {Null} ELSE {m[j][col] : j \in 1..Len(m)}

\* The SELECT of create_materialized_view: contacts JOIN entities, LEFT JOIN
\* techstacks and the two mappings, one row per group of
\* (contact, entity, sfdc_id, hubspot_id).
create_view_rows(d) ==
    { [contact_id   |-> d.contacts[i].id,
       emails       |-> Lower(d.contacts[i].emails),
       title        |-> Lower(d.contacts[i].title),
       display_name |-> Lower(d.entities[k].display_name),
       tech_names   |-> tech_names_of(d.techstacks, d.entities[k].place_id),
       sfdc_id      |-> a,
       hubspot_id   |-> b,
       document     |-> Lower(d.contacts[i].emails) \o <<" ">> \o Lower(d.contacts[i].title)
                        \o <<" ">> \o tech_names_of(d.techstacks, d.entities[k].place_id)] :
        <<i, k, a, b>> \in
            { x \in (1..Len(d.contacts)) \X (1..Len(d.entities))
                    \X ({Null} \cup {d.customerA[j].sfdc_id : j \in 1..Len(d.customerA)})
                    \X ({Null} \cup {d.customerB[j].hubspot_id : j \in 1..Len(d.customerB)}) :
                /\ d.contacts[x[1]].place_id = d.entities[x[2]].place_id
                /\ x[3] \in LeftJoined(d.customerA, d.entities[x[2]].place_id, "sfdc_id")
                /\ x[4] \in LeftJoined(d.customerB, d.entities[x[2]].place_id, "hubspot_id") } }

-----------------------------------------------------------------------------
(* The merger and the view query applied to bounded cleaned tables.        *)

\* The most rows of the cleaned contacts table.
MaxContacts == 2

\* The most tag rows.
MaxTags == 2

\* The most rows of a customer mapping table.
MaxMappings == 2

Places == {1, 2}

\* Sequences of at most n distinct members of S: a cleaned table holds no
\* two equal rows.
DistinctSeqs(S, n) ==
    {q \in SeqsUpTo(S, n) : \A i, j \in 1..Len(q) : i # j => q[i] # q[j]}

\* The entity rows of a set of places, one per place (place_id is the key).
RECURSIVE EntityRows(_)
EntityRows(ps) ==
    IF ps = {} THEN <<>>
    ELSE LET p == MinOf(ps)
         IN  <<[place_id |-> p, display_name |-> <<"P">>]>> \o EntityRows(ps \ {p})

\* Cleaned contacts: ids unique, here the 1-based sequence.
CleanedContacts ==
    UNION { { [i \in 1..n |-> [id |-> i, place_id |-> pl[i],
                               emails |-> <<"E">>, title |-> <<"T">>]] :
                pl \in [1..n -> Places] } : n \in 1..MaxContacts }

CleanedData ==
    [contacts   : CleanedContacts,
     entities   : {EntityRows(ps) : ps \in SUBSET Places},
     techstacks : DistinctSeqs([place_id : Places, name : {<<"R">>, <<"N">>}], MaxTags),
     customerA  : DistinctSeqs([sfdc_id : {<<"S", "1">>, <<"S", "2">>}, place_id : Places],
                               MaxMappings),
     customerB  : DistinctSeqs([hubspot_id : {<<"H", "1">>}, place_id : Places], MaxMappings)]

InitMerge ==
    /\ cleaned \in CleanedData
    /\ flat_df = <<>>
    /\ flattened_data = {}
    /\ merged = {}
    /\ TranslateIdle /\ CleanIdle /\ RuntimeIdle

FlattenData ==
    /\ "flatten" \notin merged
    /\ flat_df' = flatten_data(cleaned)
    /\ merged' = merged \cup {"flatten"}
    /\ UNCHANGED <<cleaned, flattened_data, translateVars, cleanVars, runtimeVars>>

CreateViewRows ==
    /\ "view" \notin merged
    /\ flattened_data' = create_view_rows(cleaned)
    /\ merged' = merged \cup {"view"}
    /\ UNCHANGED <<cleaned, flat_df, translateVars, cleanVars, runtimeVars>>

NextMerge == FlattenData \/ CreateViewRows

SpecMerge == InitMerge /\ [][NextMerge]_vars

\* C1: with non-empty contacts and entities, flatten_data returns as many
\* rows as the cleaned contacts table has, whatever the number of tag rows
\* and of mapping rows per place.
FlattenKeepsRowCount ==
    ("flatten" \in merged /\ cleaned.contacts # <<>> /\ cleaned.entities # <<>>) =>
        Len(flat_df) = Len(cleaned.contacts)

\* C2: every contact of the cleaned contacts table is in flattened_data
\* exactly once, also a contact whose place has no entity and whatever the
\* number of tag rows of its place.
ViewHoldsEveryContactOnce ==
    "view" \in merged =>
        \A i \in 1..Len(cleaned.contacts) :
            Cardinality({r \in flattened_data : r.contact_id = cleaned.contacts[i].id}) = 1

-----------------------------------------------------------------------------
(* The pipeline runs and the interactive shell over the shared database.   *)
(* A base table is <<>> when it does not exist and <<r>> when run r loaded *)
(* it (0: an earlier, completed run); flattened_data is <<>> when it does  *)
(* not exist and else records the run that created it and the tables it    *)
(* was built over.                                                         *)

\* The pipeline runs that may be started, as separate processes.
Runs == {1, 2}

\* The base tables, in the order load_data_to_db drops and loads them.
TableOrder == <<"entities", "contacts", "techstacks", "customera", "customerb">>

TableNames == {TableOrder[i] : i \in 1..Len(TableOrder)}

\* The database as a completed earlier run left it.
LoadedDb ==
    [tables |-> [t \in TableNames |-> <<0>>],
     view   |-> <<[by |-> 0, over |-> [t \in TableNames |-> <<0>>]]>>,
     index  |-> TRUE]

\* End of input at the prompt.
EOF == <<"<EOF>">>

\* What the user may type at the prompt.
ShellInputs ==
    { <<"e", "x", "i", "t">>, <<"Q", "U", "I", "T", " ">>,
      <<"c", "r", "m", ":", "a">>, <<"c", "r", "m", ":", "z">>,
      <<"r", "a", "n", "g", "e", ":", "p", " ", ">", ">", "5">>,
      <<"t", "i", "t", "l", "e", ":", "x", "'">>,
      <<"n", "o", "d", "e">>, <<" ">> }

InitRuntime ==
    /\ db = LoadedDb
    /\ run = [r \in Runs |-> [pc |-> "idle", i |-> 1, load_failed |-> FALSE,
                              view_failed |-> FALSE]]
    /\ shell = [pc |-> "prompt", input |-> <<>>, sql |-> <<>>, outcome |-> "none",
                printed |-> "PostgreSQL mode.", rows |-> <<>>, total |-> 0,
                preview |-> <<>>]

Active(r) == run[r].pc \notin {"idle", "done"}

\* run_pipeline up to create_engine: the CSV files are read and cleaned.
StartRun(r) ==
    /\ run[r].pc = "idle"
    /\ run' = [run EXCEPT ![r].pc = "drop_view"]
    /\ UNCHANGED <<db, shell, translateVars, cleanVars, mergeVars>>

\* drop_materialized_view: DROP MATERIALIZED VIEW IF EXISTS ... CASCADE.
DropMaterializedView(r) ==
    /\ run[r].pc = "drop_view"
    /\ db' = [db EXCEPT !.view = <<>>, !.index = FALSE]
    /\ run' = [run EXCEPT ![r].pc = "drop_tables", ![r].i = 1]
    /\ UNCHANGED <<shell, translateVars, cleanVars, mergeVars>>

\* drop_table, once per table: DROP TABLE IF EXISTS ... CASCADE drops a
\* materialized view built over the table with it.
DropTable(r) ==
    /\ run[r].pc = "drop_tables"
    /\ LET t    == TableOrder[run[r].i]
           dep  == db.tables[t] # <<>> /\ db.view # <<>>
       IN  db' = [db EXCEPT !.tables[t] = <<>>,
                            !.view  = IF dep THEN <<>> ELSE @,
                            !.index = IF dep THEN FALSE ELSE @]
    /\ run' = IF run[r].i < Len(TableOrder)
              THEN [run EXCEPT ![r].i = @ + 1]
              ELSE [run EXCEPT ![r].pc = "load", ![r].i = 1]
    /\ UNCHANGED <<shell, translateVars, cleanVars, mergeVars>>

\* to_sql(..., if_exists='replace'), once per table: an existing table is
\* dropped (without CASCADE) and created anew.  The drop fails while
\* flattened_data is built over the table; the exception ends the loading.
LoadTable(r) ==
    /\ run[r].pc = "load"
    /\ LET t == TableOrder[run[r].i]
       IN  IF db.tables[t] # <<>> /\ db.view # <<>>
           THEN /\ run' = [run EXCEPT ![r].pc = "verify", ![r].load_failed = TRUE]
                /\ UNCHANGED db
           ELSE /\ db' = [db EXCEPT !.tables[t] = <<r>>]
                /\ run' = IF run[r].i < Len(TableOrder)
                          THEN [run EXCEPT ![r].i = @ + 1]
                          ELSE [run EXCEPT ![r].pc = "verify"]
    /\ UNCHANGED <<shell, translateVars, cleanVars, mergeVars>>

\* verify_relationships: counts the rows of each table; an error is logged.
VerifyRelationships(r) ==
    /\ run[r].pc = "verify"
    /\ run' = [run EXCEPT ![r].pc = "create_view"]
    /\ UNCHANGED <<db, shell, translateVars, cleanVars, mergeVars>>

\* create_materialized_view: in one transaction, drop the view if it exists,
\* create it over the five tables and create its index.  A missing table
\* fails the statement, the transaction is rolled back and the error logged.
CreateMaterializedView(r) ==
    /\ run[r].pc = "create_view"
    /\ IF \A t \in TableNames : db.tables[t] # <<>>
       THEN /\ db' = [db EXCEPT !.view = <<[by |-> r, over |-> db.tables]>>,
                                !.index = TRUE]
            /\ run' = [run EXCEPT ![r].pc = "flatten"]
       ELSE /\ run' = [run EXCEPT ![r].pc = "flatten", ![r].view_failed = TRUE]
            /\ UNCHANGED db
    /\ UNCHANGED <<shell, translateVars, cleanVars, mergeVars>>

\* flatten_data on the run's own cleaned tables, then engine.dispose().
FinishRun(r) ==
    /\ run[r].pc = "flatten"
    /\ run' = [run EXCEPT ![r].pc = "done"]
    /\ UNCHANGED <<db, shell, translateVars, cleanVars, mergeVars>>

\* Whether the shell hands the input to parse_custom_query.
IsShorthand(inp) ==
    \/ startswith(Lower(inp), P_title) \/ startswith(Lower(inp), P_emails)
    \/ startswith(Lower(inp), P_range) \/ startswith(Lower(inp), P_filter)
    \/ startswith(Lower(inp), P_crm) \/ HasColon(inp)

IsExit(inp) == Lower(inp) \in {<<"e", "x", "i", "t">>, <<"q", "u", "i", "t">>}

\* input("PG> ").strip(), the exit test and the translation.
ReadInput ==
    /\ shell.pc = "prompt"
    /\ \E typed \in ShellInputs \cup {EOF} :
         IF typed = EOF
         THEN shell' = [shell EXCEPT !.pc = "exited", !.input = EOF,
                                     !.printed = "EOF detected. Exiting."]
         ELSE LET user_input == strip(typed)
              IN  IF IsExit(user_input)
                  THEN shell' = [shell EXCEPT !.pc = "exited", !.input = user_input,
                                              !.printed = "Exiting PostgreSQL mode."]
                  ELSE shell' = [shell EXCEPT
                                   !.pc = "execute", !.input = user_input,
                                   !.sql = IF IsShorthand(user_input)
                                           THEN parse_custom_query(user_input)
                                           ELSE user_input,
                                   !.outcome = "none",
                                   !.rows = <<>>, !.total = 0, !.preview = <<>>,
                                   !.printed = IF IsShorthand(user_input)
                                               THEN "SQL:" ELSE @]
    /\ UNCHANGED <<db, run, translateVars, cleanVars, mergeVars>>

\* Whether the statement reads flattened_data.
ReadsView(sql) == IsSelect(sql)

\* Whether the backend can run the statement at all: text(None) raises, a
\* statement the lexer cannot end (an open literal) or that is no statement
\* is a syntax error, and a statement over flattened_data needs the view.
Runnable(sql, d) ==
    /\ sql # None
    /\ IsErrorResult(sql) \/ IsSelect(sql)
    /\ "<unterminated>" \notin {Skeleton(sql)[k] : k \in 1..Len(Skeleton(sql))}
    /\ ReadsView(sql) => d.view # <<>>

\* Mutant: the handler catches the database's errors only, and any other
\* exception leaves the loop.
on_execute_error_uncaught(sh) ==
    [sh EXCEPT !.pc = "exited", !.outcome = "failed", !.printed = "Traceback"]

\* except Exception as e: print("Error executing query:", e)
on_execute_error(sh) ==
    [sh EXCEPT !.pc = "prompt", !.outcome = "failed", !.printed = "Error executing query:"]

\* The rows a preview shows at most.
PreviewLimit == 10

\* The most rows of flattened_data a statement matches.
MaxMatches == 11

\* result.fetchall(): the matching rows, numbered in the order the backend
\* returns them.  An error statement selects its one row; a statement over
\* flattened_data matches n of the view's rows.
fetchall(sql, n) ==
    IF IsErrorResult(sql) THEN <<1>> ELSE [k \in 1..n |-> k]

\* Mutant: the number printed is that of the rows shown.
reported_total_of_preview(rows) ==
    IF Len(rows) < PreviewLimit THEN Len(rows) ELSE PreviewLimit

\* len(rows) in print(f"Returned {len(rows)} rows.")
reported_total(rows) == Len(rows)

\* Mutant: every row is printed (the slice is lost).
preview_rows_unsliced(rows) == rows

\* rows[:10]
preview_rows(rows) ==
    SubSeq(rows, 1, IF Len(rows) < PreviewLimit THEN Len(rows) ELSE PreviewLimit)

\* print(f"Returned {len(rows)} rows.") and the rows of the preview
on_execute_rows(sh, rows) ==
    [sh EXCEPT !.pc = "prompt", !.outcome = "ok", !.printed = "Returned rows.",
               !.rows = rows, !.total = reported_total(rows),
               !.preview = preview_rows(rows)]

\* The statement is executed on a new connection; the backend may also fail
\* for reasons of its own (fault).
Execute ==
    /\ shell.pc = "execute"
    /\ \E fault \in BOOLEAN, n \in 0..MaxMatches :
         shell' = IF fault \/ ~Runnable(shell.sql, db)
                  THEN on_execute_error(shell)
                  ELSE on_execute_rows(shell, fetchall(shell.sql, n))
    /\ UNCHANGED <<db, run, translateVars, cleanVars, mergeVars>>

Init == InitRuntime /\ TranslateIdle /\ CleanIdle /\ MergeIdle

Next ==
    \/ \E r \in Runs : StartRun(r)
    \/ \E r \in Runs : DropMaterializedView(r)
    \/ \E r \in Runs : DropTable(r)
    \/ \E r \in Runs : LoadTable(r)
    \/ \E r \in Runs : VerifyRelationships(r)
    \/ \E r \in Runs : CreateMaterializedView(r)
    \/ \E r \in Runs : FinishRun(r)
    \/ ReadInput
    \/ Execute

Spec == Init /\ [][Next]_vars

\* C3: while a pipeline run replaces flattened_data, no query of the shell
\* that is in flight finds the view absent (the code has no pause of the
\* query service, so the view must be there).
QueryNeverFindsViewAbsent ==
    (shell.pc = "execute" /\ ReadsView(shell.sql) /\ \E r \in Runs : Active(r)) =>
        db.view # <<>>

\* C8: two runs never interleave: flattened_data is only ever built over
\* tables its own run loaded, no run finds a table dropped under it when it
\* creates the view, and no run's reload is cut short by the other's view.
RunsNeverInterleave ==
    /\ db.view # <<>> =>
         \A t \in TableNames : db.view[1].over[t] = <<db.view[1].by>>
    /\ \A r \in Runs : ~run[r].view_failed /\ ~run[r].load_failed

\* C10: a failure at query time never ends the loop: the shell is left only
\* on exit, quit or end of input, and after a failed execution the error has
\* been printed and the shell is at the prompt again; a translation error is
\* a statement like any other, whose row is printed.
ShellSurvivesFailures ==
    /\ shell.pc = "exited" => (shell.input = EOF \/ IsExit(shell.input))
    /\ (shell.outcome = "failed" /\ shell.pc # "exited") =>
         shell.pc = "prompt" /\ shell.printed = "Error executing query:"
    /\ (shell.outcome = "ok" /\ shell.pc # "exited") =>
         shell.pc = "prompt" /\ shell.printed = "Returned rows."

\* C10 witness: a query over flattened_data failed while the view was
\* absent, and the shell is at the prompt again.
ShellSurvivedWitness ==
    /\ shell.pc = "prompt"
    /\ shell.outcome = "failed"
    /\ ReadsView(shell.sql)
    /\ "<unterminated>" \notin {Skeleton(shell.sql)[k] : k \in 1..Len(Skeleton(shell.sql))}
    /\ db.view = <<>>

\* C11: for every executed query the preview shows the first rows of the
\* result and never more than 10 of them, also when more than 10 match, and
\* the total reported is the number of rows that matched, not the length of
\* the preview.
PreviewIsBoundedTotalIsTrue ==
    shell.outcome = "ok" =>
        /\ Len(shell.preview) <= PreviewLimit
        /\ \A k \in 1..Len(shell.preview) : shell.preview[k] = shell.rows[k]
        /\ Len(shell.preview) = Len(shell.rows) \/ Len(shell.preview) = PreviewLimit
        /\ shell.total = Len(shell.rows)

\* C11 witness: a query matched more than 10 rows, 10 of them were shown and
\* the total reported is above 10.
PreviewWitness ==
    /\ shell.outcome = "ok"
    /\ Len(shell.rows) > PreviewLimit
    /\ Len(shell.preview) = PreviewLimit
    /\ shell.total > PreviewLimit

=============================================================================
